---- MODULE Spec2Model ----
(***************************************************************************)
(* Model of src/bidirectional_mamba.py: DepthwiseSeparableConv1D, Block,   *)
(* create_block, Bidirectional_Mamba and FusionModel.                      *)
(*                                                                         *)
(* A tensor is a record [shape, vals]: shape is the tensor's shape and     *)
(* vals its content along the sequence (time / token) axis, one number     *)
(* modulo Modulus per position standing for the vector found there.  The   *)
(* collaborators the file imports (torch.nn.Conv1d, nn.LayerNorm, Mamba,   *)
(* DropPath, layer_norm_fn) are position-wise or direction-sensitive maps  *)
(* on vals, so that a forgotten flip, a doubled mixer call or a wrong      *)
(* index changes the result.  Modules are evaluated in eval mode: Dropout  *)
(* and DropPath sample nothing.  Keyword arguments that only travel to     *)
(* Mamba or choose a dtype (ssm_cfg, norm_epsilon, rms_norm,               *)
(* residual_in_fp32, device, dtype, if_bimamba, bimamba_type,              *)
(* if_divide_out, init_layer_scale, drop_rate) keep their defaults.        *)
(*                                                                         *)
(* Three facts of the importing environment are inputs of the constructor  *)
(* actions: whether the global name VisionMamba of line 172 resolves,      *)
(* what the global name groups of line 389 resolves to (the file binds     *)
(* neither), and whether the import of line 18 gave RMSNorm.               *)
(***************************************************************************)
EXTENDS Integers, Sequences, FiniteSets, TLC

\* ---------------------------------------------------------------- bounds
MaxDepth == 4
MaxTokens == 2
MaxKernel == 3
MaxRate == 2
Batch == 2
EmbedDim == 2
NumClasses == 3
Modulus == 101

\* ---------------------------------------------------- tensors and helpers
flip(v) == [j \in 1..Len(v) |-> v[Len(v) + 1 - j]]

add(a, b) == [j \in 1..Len(a) |-> (a[j] + b[j]) % Modulus]

RECURSIVE SumSeq(_)
SumSeq(v) == IF v = <<>> THEN 0 ELSE Head(v) + SumSeq(Tail(v))

RECURSIVE MaxSeq(_)
MaxSeq(v) == IF Len(v) = 1 THEN v[1]
             ELSE LET m == MaxSeq(Tail(v)) IN IF v[1] > m THEN v[1] ELSE m

cat(a, b) == a \o b

\* x[:, :p, :] and x[:, p:, :] for a 0-based p
slice_to(v, p) == SubSeq(v, 1, p)
slice_from(v, p) == SubSeq(v, p + 1, Len(v))

\* torch.Tensor.transpose(1, 2) of a rank-3 tensor
transpose_1_2(x) == [shape |-> <<x.shape[1], x.shape[3], x.shape[2]>>, vals |-> x.vals]

\* ----------------------------------------------------------- collaborators
\* mamba_ssm Mamba(d_model, layer_idx=l): a recurrence scanned in token order,
\* y[t] = a_l * y[t-1] + x[t] + l + 1, so that it does not commute with flip.
Mamba(layer_idx, v) ==
    LET y[t \in 0..Len(v)] ==
            IF t = 0 THEN 0
            ELSE ((layer_idx + 2) * y[t - 1] + v[t] + layer_idx + 1) % Modulus
    IN  [t \in 1..Len(v) |-> y[t]]

\* nn.LayerNorm(dim): acts on each token's vector alone
LayerNorm(weight, bias, v) == [j \in 1..Len(v) |-> (weight * v[j] + bias) % Modulus]

\* timm DropPath(p) in eval mode returns its input
DropPath(p, v) == v

\* nn.Dropout in eval mode returns its input
Dropout(v) == v

\* mamba_ssm layer_norm_fn / rms_norm_fn: add the residual, then normalise
fused_add_norm_fn(v, weight, bias, residual, residual_is_None) ==
    LET r == IF residual_is_None THEN v ELSE add(v, residual)
    IN  [hidden_states |-> LayerNorm(weight, bias, r), residual |-> r]

\* nn.Linear(in_features, out_features) on the last axis
Linear(out_features, x) ==
    [shape |-> [j \in 1..Len(x.shape) |-> IF j = Len(x.shape) THEN out_features ELSE x.shape[j]],
     vals |-> [j \in 1..Len(x.vals) |-> (5 * x.vals[j] + 3) % Modulus]]

\* torch.nn.Conv1d output length (stride 1, dilation 1)
Conv1d_length(L, kernel_size, padding) == L + 2 * padding - (kernel_size - 1) - 1 + 1

\* torch.nn.Conv1d on the time axis: zero padding, weights 1..kernel_size
Conv1d_vals(v, kernel_size, padding) ==
    LET L == Conv1d_length(Len(v), kernel_size, padding)
        at(i) == IF i >= 1 /\ i <= Len(v) THEN v[i] ELSE 0
        tap[t \in 1..L, j \in 0..kernel_size] ==
            IF j = 0 THEN 1
            ELSE (tap[t, j - 1] + j * at(t + j - 1 - padding)) % Modulus
    IN  [t \in 1..L |-> tap[t, kernel_size]]

\* ------------------------------------------------ DepthwiseSeparableConv1D
\* nn.Conv1d(in_channels, out_channels, kernel_size, groups, padding)
Conv1d(in_channels, out_channels, kernel_size, groups, padding) ==
    [err |-> IF in_channels % groups # 0 \/ out_channels % groups # 0
             THEN "ValueError" ELSE "none",
     in_channels |-> in_channels, out_channels |-> out_channels,
     kernel_size |-> kernel_size, padding |-> padding]

Conv1d_forward(conv, x) ==
    IF x.shape[2] # conv.in_channels
    THEN [err |-> "RuntimeError", x |-> x]
    ELSE [err |-> "none",
          x |-> [shape |-> <<x.shape[1], conv.out_channels,
                             Conv1d_length(x.shape[3], conv.kernel_size, conv.padding)>>,
                 vals |-> Conv1d_vals(x.vals, conv.kernel_size, conv.padding)]]

\* A convolution without padding: the variant the shape property of C7 must tell
\* from padding = kernel_size // 2
padding_zero(kernel_size) == 0

\* padding=kernel_size // 2, line 28
depthwise_padding(kernel_size) == kernel_size \div 2

DepthwiseSeparableConv1D_init(in_channels, out_channels, groups, kernel_size) ==
    LET depthwise == Conv1d(in_channels, in_channels * kernel_size, kernel_size, groups,
                            depthwise_padding(kernel_size))
        pointwise == Conv1d(in_channels * kernel_size, out_channels, 1, 1, 0)
    IN  [err |-> IF depthwise.err # "none" THEN depthwise.err ELSE pointwise.err,
         depthwise |-> depthwise, pointwise |-> pointwise]

DepthwiseSeparableConv1D_forward(dw, x) ==
    LET d == Conv1d_forward(dw.depthwise, x)
    IN  IF d.err # "none" THEN d ELSE Conv1d_forward(dw.pointwise, d.x)

NoConv == DepthwiseSeparableConv1D_init(1, 1, 1, 1)

\* ------------------------------------------------------------------ Block
\* Block.__init__ as create_block calls it; RMSNorm is None when the import of
\* mamba_ssm.ops.triton.layernorm failed
Block_init(layer_idx, drop_path, fused_add_norm, RMSNorm_imported) ==
    [err |-> IF fused_add_norm /\ ~RMSNorm_imported THEN "AssertionError" ELSE "none",
     layer_idx |-> layer_idx, drop_path |-> drop_path, fused_add_norm |-> fused_add_norm,
     norm_weight |-> layer_idx + 2, norm_bias |-> 1]

create_block(drop_path, fused_add_norm, layer_idx, RMSNorm_imported) ==
    Block_init(layer_idx, drop_path, fused_add_norm, RMSNorm_imported)

\* Block.forward, lines 62-70: residual add and normalisation as separate steps.
\* mixer_inputs lists the inputs of the self.mixer calls made, added is the term
\* added to the incoming residual.
Block_unfused(block, hidden_states, residual, residual_is_None) ==
    LET term == DropPath(block.drop_path, Mamba(block.layer_idx, hidden_states))
        r == IF residual_is_None THEN hidden_states ELSE add(residual, term)
    IN  [hidden_states |-> LayerNorm(block.norm_weight, block.norm_bias, r),
         residual |-> r,
         mixer_inputs |-> IF residual_is_None THEN <<>> ELSE <<hidden_states>>,
         added |-> IF residual_is_None THEN <<>> ELSE term]

\* Block.forward, lines 72-93: the fused add and normalisation
Block_fused(block, hidden_states, residual, residual_is_None) ==
    LET term == DropPath(block.drop_path, hidden_states)
        f == fused_add_norm_fn(IF residual_is_None THEN hidden_states ELSE term,
                               block.norm_weight, block.norm_bias,
                               residual, residual_is_None)
    IN  [hidden_states |-> f.hidden_states, residual |-> f.residual,
         mixer_inputs |-> <<>>,
         added |-> IF residual_is_None THEN <<>> ELSE term]

\* Block.forward, lines 94-95: the mixer on the normalised hidden state, and the
\* pair returned.  call is the record of what this invocation did.
Block_return(block, hidden_states, residual, residual_is_None, an, out) ==
    [hidden_states |-> out,
     residual |-> an.residual,
     call |-> [layer_idx |-> block.layer_idx, fused |-> block.fused_add_norm,
               hidden_states |-> hidden_states, residual |-> residual,
               residual_is_None |-> residual_is_None,
               mixer_inputs |-> an.mixer_inputs \o <<an.hidden_states>>,
               added |-> an.added,
               out_hidden |-> out, out_residual |-> an.residual]]

Block_mixer(block, hidden_states, residual, residual_is_None, an) ==
    Block_return(block, hidden_states, residual, residual_is_None, an,
                 Mamba(block.layer_idx, an.hidden_states))

\* Block.forward
Block_forward(block, hidden_states, residual, residual_is_None) ==
    Block_mixer(block, hidden_states, residual, residual_is_None,
                IF ~block.fused_add_norm
                THEN Block_unfused(block, hidden_states, residual, residual_is_None)
                ELSE Block_fused(block, hidden_states, residual, residual_is_None))

\* ---------------------------------------------------- Bidirectional_Mamba
\* A probability is a fraction [num, den] of the unit drop_path_rate is given in.
\* torch.linspace(0, end, steps)
linspace(end, steps) ==
    LET den == IF steps > 1 THEN steps - 1 ELSE 1
    IN  [k \in 1..steps |-> [num |-> end * (k - 1), den |-> den]]

\* dpr alone, without the 0.0 line 205 puts in front: the variant the schedule
\* of C6 must tell from inter_dpr
dpr_alone(drop_path_rate, depth) == linspace(drop_path_rate, depth)

\* inter_dpr, line 205
inter_dpr(drop_path_rate, depth) ==
    <<[num |-> 0, den |-> 1]>> \o linspace(drop_path_rate, depth)

\* Line 184 without line 193: the variant the token count of C9 must tell from
\* num_tokens
num_tokens_line_184(kw) == IF kw.if_cls_token THEN 1 ELSE 0

\* self.num_tokens, lines 184 and 193
num_tokens(kw) ==
    IF kw.if_cls_token THEN (IF kw.use_double_cls_token THEN 2 ELSE 1) ELSE 0

\* Parameter values after trunc_normal_: one number per token vector
cls_token_head_value == 40 + 1
cls_token_tail_value == 50 + 2
cls_token_value == 60 + 3
pos_embed_value(n) == [j \in 1..n |-> (7 * j) % Modulus]

\* self.layers, lines 208-227: block i gets drop_path = inter_dpr[i]
layers_init(kw, RMSNorm_imported) ==
    [i \in 1..kw.depth |->
        create_block(inter_dpr(kw.drop_path_rate, kw.depth)[i],
                     kw.fused_add_norm, i - 1, RMSNorm_imported)]

\* Bidirectional_Mamba.__init__.  VisionMamba_bound: whether the name VisionMamba
\* of line 172 resolves in the module's namespace (the file itself binds no
\* such name); RMSNorm_imported: whether the import of lines 17-20 succeeded.
Bidirectional_Mamba_init(kw, VisionMamba_bound, RMSNorm_imported) ==
    LET layers == layers_init(kw, RMSNorm_imported)
    IN  [err |-> IF ~VisionMamba_bound THEN "NameError"
                 ELSE IF \E i \in 1..Len(layers) : layers[i].err # "none"
                      THEN "AssertionError" ELSE "none",
         fused_add_norm |-> kw.fused_add_norm,
         if_bidirectional |-> kw.if_bidirectional,
         final_pool_type |-> kw.final_pool_type,
         if_abs_pos_embed |-> kw.if_abs_pos_embed,
         flip_img_sequences_ratio |-> kw.flip_img_sequences_ratio,
         if_rope |-> kw.if_rope,
         if_cls_token |-> kw.if_cls_token,
         use_double_cls_token |-> kw.use_double_cls_token,
         use_middle_cls_token |-> kw.use_middle_cls_token,
         num_tokens |-> num_tokens(kw),
         num_classes |-> kw.num_classes,
         embed_dim |-> kw.embed_dim,
         pos_embed |-> IF kw.if_abs_pos_embed
                       THEN pos_embed_value(kw.channels + num_tokens(kw)) ELSE <<>>,
         drop_path |-> [num |-> kw.drop_path_rate, den |-> 1],
         layers |-> layers,
         norm_f_weight |-> 3, norm_f_bias |-> 2]

NoTensor == [shape |-> <<>>, vals |-> <<>>]

\* The locals of one forward call: x, token_position, if_flip (the source's
\* if_flip_img_suquences), hidden_states, residual.  tags: which positions of x
\* hold a classification token; policy: the insertion branches taken; lens: the
\* token count on entry and after each step reached; calls: the Block.forward
\* invocations in order; iterations: the loop iterations run; stack_hidden,
\* stack_residual, stack_residual_is_None: hidden_states and residual when the
\* loop ends; features: what forward_features returned; out: what forward
\* returned.
NoFF ==
    [err |-> "none", x |-> <<>>, tags |-> <<>>, token_position |-> <<>>,
     policy |-> <<>>, if_flip |-> FALSE, lens |-> <<>>, hidden_states |-> <<>>,
     residual |-> <<>>, residual_is_None |-> TRUE, calls |-> <<>>, iterations |-> 0,
     stack_hidden |-> <<>>, stack_residual |-> <<>>, stack_residual_is_None |-> TRUE,
     features |-> NoTensor, out |-> NoTensor]

raise(f, error) == [f EXCEPT !.err = error]

\* x after a step that replaces it
with_x(f, v) == [f EXCEPT !.x = v, !.lens = Append(f.lens, Len(v))]

\* hidden_states after a step that replaces it
with_hidden_states(f, v) ==
    [f EXCEPT !.hidden_states = v, !.lens = Append(f.lens, Len(v))]

\* torch.cat of a classification token into x at the 0-based position p, lines 257-268
cat_cls_token(f, p, name) ==
    [f EXCEPT !.x = cat(cat(slice_to(f.x, p), <<cls_token_value>>), slice_from(f.x, p)),
              !.tags = cat(cat(slice_to(f.tags, p), <<"cls">>), slice_from(f.tags, p)),
              !.token_position = <<p>>,
              !.policy = Append(f.policy, name),
              !.lens = Append(f.lens, Len(f.x) + 1)]

\* lines 248-253
cat_double_cls_token(f, M) ==
    [f EXCEPT !.x = cat(cat(<<cls_token_head_value>>, f.x), <<cls_token_tail_value>>),
              !.tags = cat(cat(<<"cls">>, f.tags), <<"cls">>),
              !.token_position = <<0, M + 1>>,
              !.policy = Append(f.policy, "double"),
              !.lens = Append(f.lens, Len(f.x) + 2)]

\* forward_features, lines 244-269: the classification token(s).  randint is the
\* value random.randint(0, M) returns when it is called.  torch.cat raises when
\* the last axis of x is not embed_dim wide.
insert_cls_token(s, x, f, if_random_cls_token_position, randint) ==
    IF ~s.if_cls_token THEN with_x(f, f.x)
    ELSE IF x.shape[3] # s.embed_dim THEN raise(f, "RuntimeError")
    ELSE IF s.use_double_cls_token THEN cat_double_cls_token(f, x.shape[2])
    ELSE IF s.use_middle_cls_token THEN cat_cls_token(f, x.shape[2] \div 2, "middle")
    ELSE IF if_random_cls_token_position THEN cat_cls_token(f, randint, "random")
    ELSE cat_cls_token(f, 0, "head")

\* forward_features, lines 271-273
add_pos_embed(s, f) ==
    IF f.err # "none" THEN f
    ELSE with_x(f, IF s.if_abs_pos_embed
                   THEN Dropout(add(f.x, s.pos_embed))
                   ELSE f.x)

\* line 276; the ratio and random.random() are counted in units of 1e-5
flip_fires(flip_img_sequences_ratio, random_) ==
    flip_img_sequences_ratio > 0 /\ (flip_img_sequences_ratio - random_) > 1

\* forward_features, lines 275-278
flip_img_sequences(s, f, random_) ==
    IF f.err # "none" THEN f
    ELSE IF flip_fires(s.flip_img_sequences_ratio, random_)
    THEN [with_x(f, flip(f.x)) EXCEPT !.tags = flip(f.tags), !.if_flip = TRUE]
    ELSE with_x(f, f.x)

\* One unidirectional iteration, lines 302-304
layer_step(f, r) ==
    [f EXCEPT !.hidden_states = r.hidden_states, !.residual = r.residual,
              !.residual_is_None = FALSE, !.calls = Append(f.calls, r.call),
              !.iterations = f.iterations + 1]

\* forward_features, lines 283-304: k is the 1-based index of the next layer.
\* self.rope is an attribute no line of the file sets.
RECURSIVE unidirectional(_, _, _)
unidirectional(s, k, f) ==
    IF k > Len(s.layers) \/ f.err # "none" THEN f
    ELSE IF s.if_rope THEN raise(f, "AttributeError")
    ELSE unidirectional(s, k + 1,
             layer_step(f, Block_forward(s.layers[k], f.hidden_states, f.residual,
                                         f.residual_is_None)))

\* len(self.layers) // 2, line 307
pair_count(s) == Len(s.layers) \div 2

\* The end of one pair iteration, lines 319-320
pair_step(f, fwd, bwd) ==
    [f EXCEPT !.hidden_states = add(fwd.hidden_states, flip(bwd.hidden_states)),
              !.residual = add(fwd.residual, flip(bwd.residual)),
              !.residual_is_None = FALSE,
              !.calls = f.calls \o <<fwd.call, bwd.call>>,
              !.iterations = f.iterations + 1]

\* forward_features, lines 306-320: i is the 0-based pair index
RECURSIVE bidirectional(_, _, _)
bidirectional(s, i, f) ==
    IF i >= pair_count(s) \/ f.err # "none" THEN f
    ELSE IF s.if_rope THEN raise(f, "AttributeError")
    ELSE bidirectional(s, i + 1,
             pair_step(f,
                       Block_forward(s.layers[i * 2 + 1], f.hidden_states, f.residual,
                                     f.residual_is_None),
                       Block_forward(s.layers[i * 2 + 2], flip(f.hidden_states),
                                     flip(f.residual), f.residual_is_None)))

\* forward_features, lines 281-320
block_stack(s, f) ==
    IF f.err # "none" THEN f
    ELSE IF ~s.if_bidirectional
    THEN unidirectional(s, 1, [f EXCEPT !.hidden_states = f.x])
    ELSE bidirectional(s, 0, [f EXCEPT !.hidden_states = f.x])

\* hidden_states and residual as the loop leaves them
after_stack(f) ==
    IF f.err # "none" THEN f
    ELSE [with_hidden_states(f, f.hidden_states)
              EXCEPT !.stack_hidden = f.hidden_states, !.stack_residual = f.residual,
                     !.stack_residual_is_None = f.residual_is_None]

\* forward_features, lines 322-338
final_residual(s, f) ==
    IF f.residual_is_None THEN f.hidden_states
    ELSE add(f.residual, DropPath(s.drop_path, f.hidden_states))

final_norm(s, f) ==
    IF f.err # "none" THEN f
    ELSE IF ~s.fused_add_norm
    THEN [with_hidden_states(f, LayerNorm(s.norm_f_weight, s.norm_f_bias,
                                          final_residual(s, f)))
              EXCEPT !.residual = final_residual(s, f), !.residual_is_None = FALSE]
    ELSE with_hidden_states(f,
             fused_add_norm_fn(DropPath(s.drop_path, f.hidden_states),
                               s.norm_f_weight, s.norm_f_bias, f.residual,
                               f.residual_is_None).hidden_states)

\* forward_features, lines 340-350: hidden_states[:, token_position, :]
extract_cls(s, B, f) ==
    [f EXCEPT !.features =
        [shape |-> <<B, s.embed_dim>>,
         vals |-> IF s.use_double_cls_token
                  THEN <<(f.hidden_states[f.token_position[1] + 1]
                          + f.hidden_states[f.token_position[2] + 1]) \div 2>>
                  ELSE <<f.hidden_states[f.token_position[1] + 1]>>]]

\* forward_features, lines 352-361
pool(s, B, f) ==
    IF s.final_pool_type = "none"
    THEN [f EXCEPT !.features = [shape |-> <<B, s.embed_dim>>,
                                 vals |-> <<f.hidden_states[Len(f.hidden_states)]>>]]
    ELSE IF s.final_pool_type = "mean"
    THEN [f EXCEPT !.features = [shape |-> <<B, s.embed_dim>>,
                                 vals |-> <<SumSeq(f.hidden_states)
                                            \div Len(f.hidden_states)>>]]
    ELSE IF s.final_pool_type = "max"
    THEN [f EXCEPT !.features = [shape |-> <<B, Len(f.hidden_states), s.embed_dim>>,
                                 vals |-> f.hidden_states]]
    ELSE IF s.final_pool_type = "all"
    THEN [f EXCEPT !.features = [shape |-> <<B, Len(f.hidden_states), s.embed_dim>>,
                                 vals |-> f.hidden_states]]
    ELSE raise(f, "NotImplementedError")

\* forward_features, lines 340-361
extract(s, B, f) ==
    IF f.err # "none" THEN f
    ELSE IF s.if_cls_token THEN extract_cls(s, B, f)
    ELSE pool(s, B, f)

\* The locals on entry, line 244
entry_frame(x) ==
    [NoFF EXCEPT !.x = x.vals,
                 !.tags = [j \in 1..Len(x.vals) |-> "tok"],
                 !.lens = <<x.shape[2]>>]

\* Bidirectional_Mamba.forward_features
forward_features(s, x, if_random_cls_token_position, randint, random_) ==
    extract(s, x.shape[1],
      final_norm(s,
        after_stack(
          block_stack(s,
            flip_img_sequences(s,
              add_pos_embed(s,
                insert_cls_token(s, x, entry_frame(x),
                                 if_random_cls_token_position, randint)),
              random_)))))

\* self.head, line 201
head(s, x) == IF s.num_classes > 0 THEN Linear(s.num_classes, x) ELSE x

\* x.max(dim=1)[0]: the axis at index 1 is reduced away
max_dim_1(x) ==
    [shape |-> [j \in 1..(Len(x.shape) - 1) |-> IF j < 2 THEN x.shape[j] ELSE x.shape[j + 1]],
     vals |-> <<MaxSeq(x.vals)>>]

\* Bidirectional_Mamba.forward, lines 365-370
forward_tail(s, return_features, f) ==
    IF f.err # "none" THEN f
    ELSE IF return_features THEN [f EXCEPT !.out = f.features]
    ELSE IF s.final_pool_type = "max"
    THEN [f EXCEPT !.out = max_dim_1(head(s, f.features))]
    ELSE [f EXCEPT !.out = head(s, f.features)]

\* Bidirectional_Mamba.forward
Bidirectional_Mamba_forward(s, x, return_features, if_random_cls_token_position, randint, random_) ==
    forward_tail(s, return_features,
                 forward_features(s, x, if_random_cls_token_position, randint, random_))

\* Bidirectional_Mamba.__init__'s keyword defaults, lines 143-168; drop_path_rate
\* in tenths, flip_img_sequences_ratio in units of 1e-5
Defaults ==
    [depth |-> 2, embed_dim |-> 192, channels |-> 3, num_classes |-> 1000,
     drop_path_rate |-> 1, fused_add_norm |-> FALSE, if_rope |-> FALSE,
     if_bidirectional |-> TRUE, final_pool_type |-> "none",
     if_abs_pos_embed |-> FALSE, flip_img_sequences_ratio |-> -100000,
     if_cls_token |-> FALSE, use_double_cls_token |-> FALSE,
     use_middle_cls_token |-> FALSE]

\* ------------------------------------------------------------- FusionModel
\* The keyword arguments FusionModel.__init__ gives Bidirectional_Mamba, lines 376-384
Bimodel_kwargs(depth, embed_dim, channels, num_classes) ==
    [Defaults EXCEPT !.depth = depth, !.embed_dim = embed_dim, !.channels = channels,
                     !.num_classes = num_classes, !.if_cls_token = TRUE,
                     !.use_double_cls_token = TRUE]

\* FusionModel.__init__.  groups_global: the value the name groups of line 389
\* resolves to in the module's namespace, 0 when it is unbound (the file binds
\* no such name).
FusionModel_init(kw, in_channels, out_channels, kernel_size, VisionMamba_bound, groups_global, RMSNorm_imported) ==
    LET Bimodel == Bidirectional_Mamba_init(kw, VisionMamba_bound, RMSNorm_imported)
        DW == DepthwiseSeparableConv1D_init(in_channels, out_channels,
                                            IF groups_global = 0 THEN 1 ELSE groups_global,
                                            kernel_size)
    IN  [err |-> IF Bimodel.err # "none" THEN Bimodel.err
                 ELSE IF groups_global = 0 THEN "NameError"
                 ELSE DW.err,
         Bimodel |-> Bimodel, DW |-> DW]

\* FusionModel.forward, lines 395-397, on the convolution's result c
FusionModel_sequence(Bimodel, c) ==
    IF c.err # "none" THEN raise(NoFF, c.err)
    ELSE Bidirectional_Mamba_forward(Bimodel, transpose_1_2(c.x), FALSE, FALSE, 0, 0)

\* FusionModel.forward
FusionModel_forward(Bimodel, dw, x) ==
    FusionModel_sequence(Bimodel, DepthwiseSeparableConv1D_forward(dw, x))

\* ------------------------------------------------------------ state machine
VARIABLES
    pc,         \* "start", "constructed", "returned" or "raised"
    entry,      \* the class the caller constructs and calls
    err,        \* the exception raised, "none" when there is none
    kwargs,     \* the keyword arguments Bidirectional_Mamba.__init__ is given
    conv_args,  \* the arguments DepthwiseSeparableConv1D.__init__ is given
    self,       \* the Bidirectional_Mamba object's fields
    DW,         \* the DepthwiseSeparableConv1D object's fields
    x_in,       \* the tensor forward was called with
    return_features, \* forward's flag
    if_random_cls_token_position, \* forward's flag
    ff,         \* the locals of the Bidirectional_Mamba.forward call and its result
    conv        \* the result of the DepthwiseSeparableConv1D.forward call

vars ==
    <<pc, entry, err, kwargs, conv_args, self, DW, x_in, return_features,
      if_random_cls_token_position, ff, conv>>

PoolTypes == {"none", "mean", "max", "all", "avg"}
FlipRatios == {-100000, 50000}
RandomDraws == {0, 99999}

KwargsSet ==
    [depth : 1..MaxDepth, embed_dim : {EmbedDim}, channels : 1..MaxTokens,
     num_classes : {NumClasses}, drop_path_rate : {0, MaxRate},
     fused_add_norm : BOOLEAN, if_rope : BOOLEAN, if_bidirectional : BOOLEAN,
     final_pool_type : PoolTypes, if_abs_pos_embed : BOOLEAN,
     flip_img_sequences_ratio : FlipRatios, if_cls_token : BOOLEAN,
     use_double_cls_token : BOOLEAN, use_middle_cls_token : BOOLEAN]

NoSelf == Bidirectional_Mamba_init([Defaults EXCEPT !.depth = 0], TRUE, TRUE)
NoConvResult == [err |-> "none", x |-> NoTensor]
NoConvArgs == [in_channels |-> 0, out_channels |-> 0, groups |-> 0, kernel_size |-> 0]

\* The input a caller gives: position j of the sequence axis holds the value j
signal(B, d1, d2, n) == [shape |-> <<B, d1, d2>>, vals |-> [j \in 1..n |-> j]]

ConvArgsSet ==
    [in_channels : 1..2, out_channels : 1..2, groups : 1..2, kernel_size : 1..MaxKernel]

FusionArgsSet ==
    [depth : 1..MaxDepth, embed_dim : {EmbedDim}, channels : {1},
     num_classes : {NumClasses}, in_channels : 1..2,
     out_channels : {EmbedDim, EmbedDim + 1}, kernel_size : 1..MaxKernel]

\* Before the constructor runs: the class the caller is about to construct and
\* the arguments it passes
Init ==
    /\ pc = "start"
    /\ err = "none"
    /\ \/ /\ entry = "Bidirectional_Mamba"
          /\ kwargs \in KwargsSet
          /\ conv_args = NoConvArgs
       \/ /\ entry = "DepthwiseSeparableConv1D"
          /\ kwargs = Defaults
          /\ conv_args \in ConvArgsSet
       \/ /\ entry = "FusionModel"
          /\ \E a \in FusionArgsSet :
               /\ kwargs = Bimodel_kwargs(a.depth, a.embed_dim, a.channels, a.num_classes)
               /\ conv_args = [in_channels |-> a.in_channels,
                               out_channels |-> a.out_channels,
                               groups |-> 0, kernel_size |-> a.kernel_size]
    /\ self = NoSelf
    /\ DW = NoConv
    /\ x_in = NoTensor
    /\ return_features = FALSE
    /\ if_random_cls_token_position = FALSE
    /\ ff = NoFF
    /\ conv = NoConvResult

\* Bidirectional_Mamba(**kwargs)
ConstructBidirectionalMamba ==
    /\ pc = "start"
    /\ entry = "Bidirectional_Mamba"
    /\ \E VisionMamba_bound \in BOOLEAN, RMSNorm_imported \in BOOLEAN :
         LET r == Bidirectional_Mamba_init(kwargs, VisionMamba_bound, RMSNorm_imported)
         IN  /\ err' = r.err
             /\ pc' = IF r.err = "none" THEN "constructed" ELSE "raised"
             /\ self' = IF r.err = "none" THEN r ELSE NoSelf
    /\ UNCHANGED <<entry, kwargs, conv_args, DW, x_in, return_features,
                   if_random_cls_token_position, ff, conv>>

\* DepthwiseSeparableConv1D(in_channels, out_channels, groups, kernel_size)
ConstructConv ==
    /\ pc = "start"
    /\ entry = "DepthwiseSeparableConv1D"
    /\ LET r == DepthwiseSeparableConv1D_init(conv_args.in_channels, conv_args.out_channels,
                                              conv_args.groups, conv_args.kernel_size)
       IN  /\ err' = r.err
           /\ pc' = IF r.err = "none" THEN "constructed" ELSE "raised"
           /\ DW' = IF r.err = "none" THEN r ELSE NoConv
    /\ UNCHANGED <<entry, kwargs, conv_args, self, x_in, return_features,
                   if_random_cls_token_position, ff, conv>>

\* FusionModel(depth, embed_dim, channels, num_classes, in_channels, out_channels,
\* kernel_size); conv_args.groups records what the name groups resolved to
ConstructFusionModel ==
    /\ pc = "start"
    /\ entry = "FusionModel"
    /\ \E VisionMamba_bound \in BOOLEAN, groups_global \in 0..2 :
         LET r == FusionModel_init(kwargs, conv_args.in_channels, conv_args.out_channels,
                                   conv_args.kernel_size, VisionMamba_bound,
                                   groups_global, TRUE)
         IN  /\ conv_args' = [conv_args EXCEPT !.groups = groups_global]
             /\ err' = r.err
             /\ pc' = IF r.err = "none" THEN "constructed" ELSE "raised"
             /\ self' = IF r.err = "none" THEN r.Bimodel ELSE NoSelf
             /\ DW' = IF r.err = "none" THEN r.DW ELSE NoConv
    /\ UNCHANGED <<entry, kwargs, x_in, return_features, if_random_cls_token_position,
                   ff, conv>>

\* Bidirectional_Mamba.forward(x, return_features, None, if_random_cls_token_position)
\* on a (Batch, channels, embed_dim) input
ForwardBidirectionalMamba ==
    /\ pc = "constructed"
    /\ entry = "Bidirectional_Mamba"
    /\ \E rf \in BOOLEAN, irp \in BOOLEAN :
       \E randint \in IF self.if_cls_token /\ ~self.use_double_cls_token
                         /\ ~self.use_middle_cls_token /\ irp
                      THEN 0..kwargs.channels ELSE {0},
          random_ \in IF self.flip_img_sequences_ratio > 0 THEN RandomDraws ELSE {0} :
         /\ x_in' = signal(Batch, kwargs.channels, self.embed_dim, kwargs.channels)
         /\ return_features' = rf
         /\ if_random_cls_token_position' = irp
         /\ ff' = Bidirectional_Mamba_forward(self, x_in', rf, irp, randint, random_)
    /\ err' = ff'.err
    /\ pc' = IF ff'.err = "none" THEN "returned" ELSE "raised"
    /\ UNCHANGED <<entry, kwargs, conv_args, self, DW, conv>>

\* DepthwiseSeparableConv1D.forward(x) on a (Batch, in_channels, time) input
ForwardConv ==
    /\ pc = "constructed"
    /\ entry = "DepthwiseSeparableConv1D"
    /\ \E time \in 1..MaxTokens :
         /\ x_in' = signal(Batch, conv_args.in_channels, time, time)
         /\ conv' = DepthwiseSeparableConv1D_forward(DW, x_in')
    /\ err' = conv'.err
    /\ pc' = IF conv'.err = "none" THEN "returned" ELSE "raised"
    /\ UNCHANGED <<entry, kwargs, conv_args, self, DW, return_features,
                   if_random_cls_token_position, ff>>

\* FusionModel.forward(x) on a (Batch, in_channels, time) input
ForwardFusionModel ==
    /\ pc = "constructed"
    /\ entry = "FusionModel"
    /\ \E time \in 1..MaxTokens :
         /\ x_in' = signal(Batch, conv_args.in_channels, time, time)
         /\ conv' = DepthwiseSeparableConv1D_forward(DW, x_in')
         /\ ff' = FusionModel_sequence(self, conv')
    /\ err' = ff'.err
    /\ pc' = IF ff'.err = "none" THEN "returned" ELSE "raised"
    /\ UNCHANGED <<entry, kwargs, conv_args, self, DW, return_features,
                   if_random_cls_token_position>>

Next ==
    \/ ConstructBidirectionalMamba
    \/ ConstructConv
    \/ ConstructFusionModel
    \/ ForwardBidirectionalMamba
    \/ ForwardConv
    \/ ForwardFusionModel

Spec == Init /\ [][Next]_vars

\* ------------------------------------------------------------------ claims
\* forward ran on a Bidirectional_Mamba the caller constructed
CalledBimodel == entry = "Bidirectional_Mamba" /\ x_in # NoTensor

\* forward ran on a Bidirectional_Mamba, called directly or by FusionModel.forward,
\* with a sequence whose vectors are embed_dim wide
CalledSequence ==
    \/ CalledBimodel
    \/ entry = "FusionModel" /\ x_in # NoTensor /\ conv.x.shape[2] = self.embed_dim

\* p <= q for fractions with positive denominators
Leq(p, q) == p.num * q.den <= q.num * p.den

\* The 1-based positions of the final sequence that hold a classification token
cls_positions == {j \in 1..Len(ff.tags) : ff.tags[j] = "cls"}

\* The 1-based positions lines 340-350 read
read_positions == {ff.token_position[k] + 1 : k \in 1..Len(ff.token_position)}

Lowest(S) == CHOOSE j \in S : \A k \in S : j <= k
Highest(S) == CHOOSE j \in S : \A k \in S : j >= k

\* C1: for every valid parameter set (out_channels = embed_dim), constructing
\* FusionModel raises no error, and the forward call that follows runs the
\* convolution, the transpose of axes 1 and 2 and the sequence model and returns
\* (batch, num_classes) logits; no error state is reachable on the path.
C1_FusionModel_no_error ==
    (entry = "FusionModel" /\ conv_args.out_channels = kwargs.embed_dim) =>
        /\ pc # "raised"
        /\ err = "none"
        /\ pc = "returned" =>
             /\ conv.err = "none"
             /\ ff.lens[1] = conv.x.shape[3]
             /\ ff.out.shape = <<Batch, kwargs.num_classes>>

\* FusionModel(1, EmbedDim, 1, NumClasses, 1, EmbedDim, 1) stops in a NameError
C1_NameError ==
    /\ entry = "FusionModel"
    /\ kwargs.depth = 1
    /\ conv_args.in_channels = 1
    /\ conv_args.out_channels = kwargs.embed_dim
    /\ conv_args.kernel_size = 1
    /\ pc = "raised"
    /\ err = "NameError"
    /\ x_in = NoTensor

\* Pair iteration i of one forward_features call, as C2 describes it
C2_pair(i) ==
    /\ ff.calls[2 * i + 1].hidden_states =
         IF i = 0 THEN ff.x
         ELSE add(ff.calls[2 * i - 1].out_hidden, flip(ff.calls[2 * i].out_hidden))
    /\ ff.calls[2 * i + 1].residual_is_None = (i = 0)
    /\ i > 0 => ff.calls[2 * i + 1].residual =
                  add(ff.calls[2 * i - 1].out_residual, flip(ff.calls[2 * i].out_residual))
    /\ ff.calls[2 * i + 2].hidden_states = flip(ff.calls[2 * i + 1].hidden_states)
    /\ ff.calls[2 * i + 2].residual = flip(ff.calls[2 * i + 1].residual)
    /\ ff.calls[2 * i + 2].residual_is_None = ff.calls[2 * i + 1].residual_is_None

C2_pairs ==
    /\ ff.iterations = Len(self.layers) \div 2
    /\ Len(ff.calls) = Len(self.layers)
    /\ \A k \in 1..Len(ff.calls) : ff.calls[k].layer_idx = k - 1
    /\ \A i \in 0..(Len(self.layers) \div 2 - 1) : C2_pair(i)
    /\ ff.stack_hidden = add(ff.calls[Len(ff.calls) - 1].out_hidden,
                             flip(ff.calls[Len(ff.calls)].out_hidden))
    /\ ff.stack_residual = add(ff.calls[Len(ff.calls) - 1].out_residual,
                               flip(ff.calls[Len(ff.calls)].out_residual))

\* C2: in bidirectional mode with an even depth, one forward_features call runs
\* exactly depth/2 pair iterations in increasing i; iteration i invokes block 2i
\* on the current hidden state and residual, block 2i+1 on the same two flipped,
\* and the next hidden state and residual are the forward output plus the
\* backward output flipped back; every block is invoked exactly once.
C2_even_depth_pairs ==
    (CalledBimodel /\ self.if_bidirectional /\ Len(self.layers) % 2 = 0) => C2_pairs

\* depth = 2 with if_rope: the call stops at self.rope before any block runs
C2_AttributeError ==
    /\ CalledBimodel
    /\ self.if_bidirectional
    /\ Len(self.layers) = 2
    /\ self.if_rope
    /\ pc = "raised"
    /\ err = "AttributeError"
    /\ ff.iterations = 0
    /\ ff.calls = <<>>

\* The same for the calls of objects built with if_rope = False
C2_pairs_without_rope ==
    (CalledBimodel /\ self.if_bidirectional /\ Len(self.layers) % 2 = 0 /\ ~self.if_rope)
        => C2_pairs

\* The final hidden vector at the classification token: the average of the head
\* and tail tokens' vectors in double mode
cls_vector ==
    IF self.use_double_cls_token
    THEN (ff.hidden_states[Lowest(cls_positions)]
          + ff.hidden_states[Highest(cls_positions)]) \div 2
    ELSE ff.hidden_states[Lowest(cls_positions)]

\* C3: whenever a classification token was inserted, forward_features returns
\* the final hidden vector at the position the classification token occupies in
\* the sequence that went through the block stack (the average of the head and
\* tail tokens' vectors in double mode), for every insertion policy and input
\* length and whether or not the sequence flip fired.
C3_returns_cls_vector ==
    (CalledBimodel /\ ff.err = "none" /\ self.if_cls_token) =>
        /\ read_positions = cls_positions
        /\ ff.features.vals = <<cls_vector>>

\* Head policy, M = 2, the flip fired: the token sits at position 3 and the
\* vector returned is the one at position 1, an input token's
C3_reads_input_token ==
    /\ CalledBimodel
    /\ pc = "returned"
    /\ ff.policy = <<"head">>
    /\ ff.if_flip
    /\ ff.tags = <<"tok", "tok", "cls">>
    /\ ff.token_position = <<0>>
    /\ ff.features.vals = <<ff.hidden_states[1]>>
    /\ ff.features.vals # <<ff.hidden_states[3]>>

\* The same for the calls in which the sequence flip did not fire
C3_without_flip ==
    (CalledBimodel /\ ff.err = "none" /\ self.if_cls_token /\ ~ff.if_flip) =>
        /\ read_positions = cls_positions
        /\ ff.features.vals = <<cls_vector>>

\* C4: with pooling policy "max" and return_features false, what forward returns
\* has shape (batch, num_classes), in every configuration, a classification
\* token enabled or not.
C4_max_shape ==
    (CalledBimodel /\ pc = "returned" /\ self.final_pool_type = "max" /\ ~return_features)
        => ff.out.shape = <<Batch, self.num_classes>>

\* A classification token and "max": the maximum is taken over the classes and
\* what forward returns has shape (batch)
C4_shape_batch ==
    /\ CalledBimodel
    /\ pc = "returned"
    /\ self.final_pool_type = "max"
    /\ ~return_features
    /\ self.if_cls_token
    /\ ff.features.shape = <<Batch, self.embed_dim>>
    /\ ff.out.shape = <<Batch>>

\* The same for the objects built without a classification token
C4_max_shape_without_cls ==
    (CalledBimodel /\ pc = "returned" /\ self.final_pool_type = "max" /\ ~return_features
     /\ ~self.if_cls_token)
        => ff.out.shape = <<Batch, self.num_classes>>

\* C5: with a final pooling policy other than none, mean, max, all, a forward
\* call fails with NotImplementedError and returns no output, a classification
\* token enabled or not.
C5_unknown_pool_raises ==
    (CalledBimodel /\ self.final_pool_type \notin {"none", "mean", "max", "all"}) =>
        /\ pc = "raised"
        /\ err = "NotImplementedError"
        /\ ff.out = NoTensor

\* A classification token and the policy "avg": forward returns logits
C5_returns_logits ==
    /\ CalledBimodel
    /\ self.final_pool_type = "avg"
    /\ self.if_cls_token
    /\ ~return_features
    /\ pc = "returned"
    /\ err = "none"
    /\ ff.out.shape = <<Batch, self.num_classes>>

\* The same for the objects built without a classification token and without
\* if_rope
C5_without_cls_and_rope ==
    (CalledBimodel /\ self.final_pool_type \notin {"none", "mean", "max", "all"}
     /\ ~self.if_cls_token /\ ~self.if_rope) =>
        /\ pc = "raised"
        /\ err = "NotImplementedError"
        /\ ff.out = NoTensor

\* The rates the blocks hold start at 0 and never decrease
C6_from_zero_non_decreasing ==
    /\ Len(self.layers) = kwargs.depth
    /\ self.layers[1].drop_path.num = 0
    /\ \A i \in 1..(kwargs.depth - 1) :
         Leq(self.layers[i].drop_path, self.layers[i + 1].drop_path)

\* C6 as amended: for every depth >= 2 and drop_path_rate >= 0 the rates of
\* blocks 0..depth-1 are non-decreasing; block 0 gets 0 and block i >= 1 gets
\* drop_path_rate * (i - 1) / (depth - 1), so block 1 gets 0 too and the last
\* block gets drop_path_rate * (depth - 2) / (depth - 1); drop_path_rate itself
\* is the rate of the drop path ahead of the final normalisation.
C6_schedule ==
    (self # NoSelf /\ kwargs.depth >= 2) =>
        /\ C6_from_zero_non_decreasing
        /\ \A i \in 1..(kwargs.depth - 1) :
             self.layers[i + 1].drop_path.num * (kwargs.depth - 1)
                 = kwargs.drop_path_rate * (i - 1) * self.layers[i + 1].drop_path.den
        /\ self.layers[kwargs.depth].drop_path.num * (kwargs.depth - 1)
             = kwargs.drop_path_rate * (kwargs.depth - 2)
                 * self.layers[kwargs.depth].drop_path.den
        /\ self.drop_path = [num |-> kwargs.drop_path_rate, den |-> 1]

\* An object of depth 3 and a positive rate: rates 0, 0, drop_path_rate / 2
C6_witness ==
    /\ pc = "constructed"
    /\ entry = "Bidirectional_Mamba"
    /\ kwargs.depth = 3
    /\ kwargs.drop_path_rate = MaxRate
    /\ self.layers[2].drop_path.num = 0
    /\ self.layers[3].drop_path = [num |-> MaxRate, den |-> 2]

\* C6 as stated: the rates are non-decreasing from 0 at block 0 to
\* drop_path_rate at the last block.
C6_last_block_gets_rate ==
    (self # NoSelf /\ kwargs.depth >= 2) =>
        /\ C6_from_zero_non_decreasing
        /\ self.layers[kwargs.depth].drop_path.num
             = kwargs.drop_path_rate * self.layers[kwargs.depth].drop_path.den

\* C7: DepthwiseSeparableConv1D.forward on a (batch, in_channels, time) input
\* returns out_channels channels; the time length is time + 2*(kernel_size//2)
\* - kernel_size + 1, which is time for an odd kernel_size and time + 1 for an
\* even one.
C7_conv_shape ==
    (entry \in {"DepthwiseSeparableConv1D", "FusionModel"} /\ x_in # NoTensor) =>
        /\ conv.err = "none"
        /\ conv.x.shape[1] = x_in.shape[1]
        /\ conv.x.shape[2] = conv_args.out_channels
        /\ conv.x.shape[3] = x_in.shape[3] + 2 * (conv_args.kernel_size \div 2)
                               - conv_args.kernel_size + 1
        /\ conv_args.kernel_size % 2 = 1 => conv.x.shape[3] = x_in.shape[3]
        /\ conv_args.kernel_size % 2 = 0 => conv.x.shape[3] = x_in.shape[3] + 1
        /\ Len(conv.x.vals) = conv.x.shape[3]

\* A kernel of 3 taps on a signal of 2 time steps
C7_witness ==
    /\ entry = "DepthwiseSeparableConv1D"
    /\ pc = "returned"
    /\ conv_args.kernel_size = 3
    /\ x_in.shape = <<Batch, 1, 2>>
    /\ conv.x.shape = <<Batch, 2, 2>>

\* C8: in bidirectional mode with an odd depth (and a recognised pooling policy,
\* without fused_add_norm), neither construction nor a forward call reports an
\* error: the block list holds depth blocks, the pairing loop runs
\* floor(depth/2) iterations and the last block is never invoked; with depth = 1
\* no block is invoked and the residual entering the final normalisation is
\* absent.
C8_odd_depth_silent ==
    (entry = "Bidirectional_Mamba" /\ pc # "start" /\ kwargs.if_bidirectional
     /\ kwargs.depth % 2 = 1 /\ ~kwargs.fused_add_norm
     /\ kwargs.final_pool_type \in {"none", "mean", "max", "all"}) =>
        /\ pc # "raised"
        /\ err = "none"
        /\ Len(self.layers) = kwargs.depth
        /\ x_in # NoTensor =>
             /\ ff.iterations = kwargs.depth \div 2
             /\ Len(ff.calls) = kwargs.depth - 1
             /\ \A k \in 1..Len(ff.calls) : ff.calls[k].layer_idx = k - 1
             /\ kwargs.depth = 1 => ff.calls = <<>> /\ ff.stack_residual_is_None

\* Bidirectional_Mamba(depth=3, if_bidirectional=True) stops in a NameError
C8_NameError ==
    /\ entry = "Bidirectional_Mamba"
    /\ kwargs.if_bidirectional
    /\ kwargs.depth = 3
    /\ ~kwargs.fused_add_norm
    /\ kwargs.final_pool_type = "none"
    /\ pc = "raised"
    /\ err = "NameError"
    /\ x_in = NoTensor

\* What the loop does with an odd depth in the calls that get past it
C8_odd_depth_truncates ==
    (CalledBimodel /\ self.if_bidirectional /\ Len(self.layers) % 2 = 1
     /\ ff.err # "AttributeError") =>
        /\ Len(self.layers) = kwargs.depth
        /\ ff.iterations = kwargs.depth \div 2
        /\ Len(ff.calls) = kwargs.depth - 1
        /\ \A k \in 1..Len(ff.calls) : ff.calls[k].layer_idx = k - 1
        /\ kwargs.depth = 1 => ff.calls = <<>> /\ ff.stack_residual_is_None

\* The insertion policy the flags select, lines 246-269
C9_policy ==
    IF ~self.if_cls_token THEN <<>>
    ELSE IF self.use_double_cls_token THEN <<"double">>
    ELSE IF self.use_middle_cls_token THEN <<"middle">>
    ELSE IF if_random_cls_token_position THEN <<"random">>
    ELSE <<"head">>

\* C9: for every combination of the four flags one forward_features call
\* performs exactly one insertion policy (none when if_cls_token is false); the
\* token count after insertion is the input's M plus num_tokens as fixed at
\* construction (0, 1, or 2 for the pair), and position embedding, sequence
\* flip, every block of the stack and the final normalisation leave it
\* unchanged.
C9_token_count ==
    /\ self # NoSelf =>
         self.num_tokens = (IF ~kwargs.if_cls_token THEN 0
                            ELSE IF kwargs.use_double_cls_token THEN 2 ELSE 1)
    /\ CalledSequence =>
         /\ ff.policy = C9_policy
         /\ Len(ff.lens) >= 4
         /\ ff.lens[1] = (IF entry = "FusionModel" THEN conv.x.shape[3]
                           ELSE x_in.shape[2])
         /\ \A j \in 2..Len(ff.lens) : ff.lens[j] = ff.lens[1] + self.num_tokens
         /\ Len(ff.tags) = ff.lens[1] + self.num_tokens
         /\ Cardinality(cls_positions) = self.num_tokens
         /\ \A k \in 1..Len(ff.calls) :
              /\ Len(ff.calls[k].hidden_states) = ff.lens[1] + self.num_tokens
              /\ Len(ff.calls[k].out_hidden) = ff.lens[1] + self.num_tokens
              /\ Len(ff.calls[k].out_residual) = ff.lens[1] + self.num_tokens
         /\ ff.err = "none" => Len(ff.lens) = 6

\* A head+tail pair inserted, position embedding added, the sequence flipped and
\* MaxDepth blocks run on MaxTokens + 2 tokens
C9_witness ==
    /\ entry = "Bidirectional_Mamba"
    /\ pc = "returned"
    /\ ff.policy = <<"double">>
    /\ self.if_abs_pos_embed
    /\ ff.if_flip
    /\ ff.lens = <<MaxTokens, MaxTokens + 2, MaxTokens + 2, MaxTokens + 2,
                   MaxTokens + 2, MaxTokens + 2>>
    /\ Len(ff.calls) = MaxDepth

\* One Block.forward invocation as C10 describes it
C10_call(c) ==
    /\ Len(c.mixer_inputs) = 1
    /\ c.mixer_inputs[1] = LayerNorm(self.layers[c.layer_idx + 1].norm_weight,
                                     self.layers[c.layer_idx + 1].norm_bias,
                                     c.out_residual)
    /\ ~c.residual_is_None =>
         /\ c.added = DropPath(self.layers[c.layer_idx + 1].drop_path, c.hidden_states)
         /\ c.out_residual = add(c.residual, c.added)

\* C10: in fused and unfused mode alike one Block.forward call invokes the
\* mixer exactly once, on the normalised hidden state, the residual absent or
\* present, and what is added to an incoming residual is the drop path of the
\* incoming hidden state.
C10_same_dataflow ==
    CalledSequence => \A k \in 1..Len(ff.calls) : C10_call(ff.calls[k])

\* Unfused, depth = 2, unidirectional: block 1 runs the mixer twice, first on the
\* incoming hidden state, and adds that first output to the residual
C10_mixer_twice ==
    /\ CalledBimodel
    /\ pc = "returned"
    /\ ~self.fused_add_norm
    /\ ~self.if_bidirectional
    /\ Len(ff.calls) = 2
    /\ Len(ff.calls[2].mixer_inputs) = 2
    /\ ff.calls[2].mixer_inputs[1] = ff.calls[2].hidden_states
    /\ ff.calls[2].added = Mamba(1, ff.calls[2].hidden_states)
    /\ ff.calls[2].added # ff.calls[2].hidden_states

\* The same for the blocks built with fused_add_norm
C10_fused_dataflow ==
    (CalledSequence /\ self.fused_add_norm)
        => \A k \in 1..Len(ff.calls) : C10_call(ff.calls[k])

====
